---- MODULE Spec2Model ----
(***************************************************************************)
(* A model of meshmode/dof_array.py: the DOFArray container, its in-place  *)
(* arithmetic, the flatten/unflatten layout codec and the thread-local     *)
(* array context used for pickling.                                        *)
(*                                                                         *)
(* The specifications that share the module:                               *)
(*   Spec           threads entering/leaving array_context_for_pickling    *)
(*                  and calling DOFArray.__getstate__ / __setstate__;      *)
(*   SpecLive       Spec with every with-body coming to its end;           *)
(*   SpecCodec      flatten and _unflatten applied to bounded inputs;      *)
(*   SpecUnflatten  unflatten applied to element groups and overrides;     *)
(*   SpecContainer  the registered deserialize function applied to         *)
(*                  bounded sequences of pairs;                            *)
(*   SpecIbop       DOFArray._ibop applied to a small heap of DOFArrays;   *)
(*   SpecSurface    the sequence protocol, the ndarray interface, the      *)
(*                  in-place operators, flatten and pickling applied to    *)
(*                  one DOFArray of that heap.                             *)
(***************************************************************************)
EXTENDS Integers, Sequences, FiniteSets, TLC

VARIABLES
    TLS_actx,     \* thread -> the attribute _ARRAY_CONTEXT_FOR_PICKLING_TLS.actx
    with_actx,    \* thread -> the actx of the with-block the thread is inside
    ret,          \* thread -> what the thread's last call did
    cin,          \* codec: the DOFArray handed to flatten
    cflat,        \* codec: the outcome of flatten
    cun,          \* codec: the outcome of _unflatten
    objs,         \* ibop: DOFArray objects by identity
    heap,         \* ibop: contents of the group arrays by identity
    last,         \* ibop: what the last in-place operator call did
    nops,         \* ibop: number of operator calls made
    iterable,     \* container: the pairs handed to deserialize
    recomposed    \* container: the outcome of deserialize

pickleVars == <<TLS_actx, with_actx, ret>>
codecVars == <<cin, cflat, cun>>
ibopVars == <<objs, heap, last, nops>>
containerVars == <<iterable, recomposed>>
vars == <<TLS_actx, with_actx, ret, cin, cflat, cun, objs, heap, last, nops,
          iterable, recomposed>>

(***************************************************************************)
(* Bounds of the model.                                                    *)
(***************************************************************************)
MaxGroups == 2     \* groups of a DOFArray that is pickled, flattened, unflattened
MaxLen == 3        \* groups of a DOFArray given to an in-place operator
MaxOps == 2        \* in-place operator calls in one behaviour

(***************************************************************************)
(* Values.                                                                 *)
(***************************************************************************)
None == "None"          \* Python's None
Unset == "unset"        \* an attribute that was never assigned
Threads == {"t1", "t2"}
Backends == {"A", "B"}  \* ArrayContext instances, compared by identity
Dtypes == {"float64", "int32"}

\* The value stored at [iel, idof] of group g of an input array: distinct
\* for distinct places, so that any misplaced entry is visible.
Tag(g, iel, idof) == g * 100 + iel * 10 + idof

\* An array of shape (nel, ndof) managed by array context `on` (None: frozen).
MkBuf(on, dtype, nel, ndof, g) ==
    [on |-> on, dtype |-> dtype, shape |-> <<nel, ndof>>,
     ent |-> [p \in (0 .. nel - 1) \X (0 .. ndof - 1) |-> Tag(g, p[1], p[2])]]

\* DOFArray.__init__ with a valid actx and a tuple: stores both.
DOFArray(actx, data) == [array_context |-> actx, data |-> data]

\* DOFArray.array_context (a property with a getter only).
array_context(ary) == ary.array_context

(***************************************************************************)
(* Array context operations (meshmode.array_context), from their contract. *)
(***************************************************************************)
\* freeze: detach every group array from its array context.
_freeze(ary) ==
    DOFArray(None, [i \in 1 .. Len(ary.data) |-> [ary.data[i] EXCEPT !.on = None]])

\* thaw: attach every group array to actx.
_thaw(actx, ary) ==
    DOFArray(actx, [i \in 1 .. Len(ary.data) |-> [ary.data[i] EXCEPT !.on = actx]])

\* actx.to_numpy: the host copy of a group array, made by actx.
to_numpy(actx, buf) ==
    [via |-> actx, dtype |-> buf.dtype, shape |-> buf.shape, ent |-> buf.ent]

\* actx.from_numpy: a host array moved into actx.
from_numpy(actx, host) ==
    [on |-> actx, dtype |-> host.dtype, shape |-> host.shape, ent |-> host.ent]

(***************************************************************************)
(* Pickling: array_context_for_pickling, __getstate__, __setstate__.       *)
(***************************************************************************)
\* try: TLS.actx  except AttributeError: None
TlsGet(t) == IF TLS_actx[t] = Unset THEN None ELSE TLS_actx[t]

\* A store to the attribute of a threading.local object: only the calling
\* thread's slot changes.  (TlsSet_global: a plain module global instead.)
TlsSet_global(t, v) == [u \in Threads |-> v]
TlsSet(t, v) == [TLS_actx EXCEPT ![t] = v]

\* "if existing_pickle_actx is not None: raise RuntimeError"
\* (EnterRejected_never: the check left out.)
EnterRejected_never(existing) == FALSE
EnterRejected(existing) == existing # None

\* What the finally clause of the context manager stores.
\* (ExitValue_keep: the attribute not reset.)
ExitValue_keep(actx) == actx
ExitValue(actx) == None

\* "if actx is None: raise RuntimeError" of __getstate__ and __setstate__
NoPickleContext(actx) == actx = None

\* The arrays handed to pickling: n groups attached to a (or frozen),
\* group g of shape (g, 2).
PickleArray(a, n) ==
    DOFArray(a, [g \in 1 .. n |-> MkBuf(a, "float64", g, 2, g)])
PickleArrays == {PickleArray(a, n) : a \in Backends \cup {None}, n \in 0 .. MaxGroups}

\* The instance dictionary of an object made by object.__new__(DOFArray),
\* as unpickling makes it: no attribute assigned yet.
NewObject == [n \in {} |-> None]

\* The properties the class DOFArray defines; each has a getter only.
Properties == {"array_context", "entry_dtype", "shape", "size", "real", "imag"}

\* self.<name> = v on a DOFArray instance: a property without a setter
\* raises AttributeError, any other name lands in the instance dictionary.
setattr_(obj, name, v) ==
    IF name \in Properties
    THEN [err |-> "AttributeError", obj |-> obj]
    ELSE [err |-> "ok", obj |-> (name :> v) @@ obj]

\* The "ary" whose groups __getstate__ transfers.
\* (GetStateAry_noconvert: the freeze/thaw left out.)
GetStateAry_noconvert(self, actx) == self
GetStateAry(self, actx) ==
    IF array_context(self) # actx THEN _thaw(actx, _freeze(self)) ELSE self

\* DOFArray.__getstate__ once actx is known to be set.
GetStateValue(self, actx) ==
    LET ary == GetStateAry(self, actx)
    IN [i \in 1 .. Len(ary.data) |-> to_numpy(actx, ary.data[i])]

\* DOFArray.__getstate__
getstate(self, actx) ==
    IF NoPickleContext(actx)
    THEN [err |-> "RuntimeError", val |-> <<>>, ary |-> self]
    ELSE [err |-> "ok", val |-> GetStateValue(self, actx),
          ary |-> GetStateAry(self, actx)]

\* DOFArray.__setstate__ on `obj`
setstate(obj, actx, state) ==
    IF NoPickleContext(actx)
    THEN [err |-> "RuntimeError", obj |-> obj]
    ELSE LET r == setattr_(obj, "array_context", actx)
         IN IF r.err # "ok"
            THEN r
            ELSE setattr_(r.obj, "_data",
                    [i \in 1 .. Len(state) |-> from_numpy(actx, state[i])])

\* The pickled states handed to __setstate__: what __getstate__ returns.
PickleStates == {GetStateValue(x, b) : x \in PickleArrays, b \in Backends}

NoArray == DOFArray(None, <<>>)
Ret(op, t, arg, actx, err) ==
    [op |-> op, where |-> with_actx[t], slot |-> TLS_actx[t], arg |-> arg,
     actx |-> actx, err |-> err, self |-> NoArray, state |-> <<>>,
     val |-> <<>>, ary |-> NoArray, obj |-> NewObject]

\* The thread-local attribute after an enter that was rejected: the raise
\* comes before the assignment and outside the try, so it is what it was.
\* (EnterRejectedSlot_reset: the test made inside the try, whose finally
\* clause resets the attribute.)
EnterRejectedSlot_reset(existing) == None
EnterRejectedSlot(existing) == existing

\* with array_context_for_pickling(b): the code up to the yield.
Enter(t, b) ==
    LET existing == TlsGet(t) IN
    /\ IF EnterRejected(existing)
       THEN /\ ret' = [ret EXCEPT ![t] = Ret("enter", t, b, existing, "RuntimeError")]
            /\ TLS_actx' = TlsSet(t, EnterRejectedSlot(existing))
            /\ UNCHANGED with_actx
       ELSE /\ TLS_actx' = TlsSet(t, b)
            /\ with_actx' = [with_actx EXCEPT ![t] = b]
            /\ ret' = [ret EXCEPT ![t] = Ret("enter", t, b, existing, "ok")]
    /\ UNCHANGED <<codecVars, ibopVars, containerVars>>

\* The ways a with-body ends: it runs to its end, or an exception leaves it.
BodyEnds == {"return", "raise"}

\* "try: yield None / finally: ...": the finally clause runs however the
\* body ends.
\* (FinallyRuns_onReturn: the reset written after the yield with no try.)
FinallyRuns_onReturn(how) == how = "return"
FinallyRuns(how) == TRUE

\* Leaving the with-block, normally or by an exception: the finally clause.
Exit(t) ==
    /\ with_actx[t] # None
    /\ \E how \in BodyEnds :
        /\ TLS_actx' = TlsSet(t, IF FinallyRuns(how) THEN ExitValue(TLS_actx[t])
                                                     ELSE TLS_actx[t])
        /\ ret' = [ret EXCEPT ![t] = Ret("exit", t, how, TlsGet(t), "ok")]
    /\ with_actx' = [with_actx EXCEPT ![t] = None]
    /\ UNCHANGED <<codecVars, ibopVars, containerVars>>

\* pickling a DOFArray on thread t
Persist(t, x) ==
    LET actx == TlsGet(t)
        r == getstate(x, actx)
    IN /\ ret' = [ret EXCEPT ![t] =
                    [Ret("persist", t, None, actx, r.err) EXCEPT
                        !.self = x, !.val = r.val, !.ary = r.ary]]
       /\ UNCHANGED <<TLS_actx, with_actx, codecVars, ibopVars, containerVars>>

\* unpickling a DOFArray on thread t
Restore(t, state) ==
    LET actx == TlsGet(t)
        r == setstate(NewObject, actx, state)
    IN /\ ret' = [ret EXCEPT ![t] =
                    [Ret("restore", t, None, actx, r.err) EXCEPT
                        !.state = state, !.obj = r.obj]]
       /\ UNCHANGED <<TLS_actx, with_actx, codecVars, ibopVars, containerVars>>

ThreadStep(t) ==
    \/ \E b \in Backends : Enter(t, b)
    \/ Exit(t)
    \/ \E x \in PickleArrays : Persist(t, x)
    \/ \E s \in PickleStates : Restore(t, s)

NoRet ==
    [op |-> "none", where |-> None, slot |-> Unset, arg |-> None,
     actx |-> None, err |-> "ok", self |-> NoArray, state |-> <<>>,
     val |-> <<>>, ary |-> NoArray, obj |-> NewObject]

PickleIdle ==
    /\ TLS_actx = [t \in Threads |-> Unset]
    /\ with_actx = [t \in Threads |-> None]
    /\ ret = [t \in Threads |-> NoRet]

(***************************************************************************)
(* The layout codec: flatten and _unflatten.                               *)
(***************************************************************************)
\* Shapes (nelements, ndofs_per_element) of the group arrays tried.
GroupShapes == {<<0, 2>>, <<1, 2>>, <<2, 1>>, <<3, 2>>, <<2, 3>>}

SeqsUpTo(S, n) == UNION {[1 .. k -> S] : k \in 0 .. n}

\* Sequences of group shapes, as unflatten builds them from discr.groups.
ShapeLists == SeqsUpTo(GroupShapes, MaxGroups)

\* A DOFArray with one group array per shape, group g of dtype dts[g].
CodecArray(a, shapes, dts) ==
    DOFArray(a, [g \in 1 .. Len(shapes) |->
                    MkBuf(a, dts[g], shapes[g][1], shapes[g][2], g)])

CodecArrays ==
    UNION {{CodecArray(a, sh, dts) :
                a \in Backends \cup {None}, dts \in [1 .. Len(sh) -> Dtypes]} :
           sh \in ShapeLists}

\* The content of memory that was allocated and never written.
Uninit == -1

\* Python's sum() of a list of numbers.
RECURSIVE sum(_)
sum(s) == IF s = <<>> THEN 0 ELSE s[1] + sum(Tail(s))

\* np.cumsum
cumsum(s) == [i \in 1 .. Len(s) |-> sum(SubSeq(s, 1, i))]

\* pytools.single_valued over the dtypes of the group arrays: ValueError
\* for no group, a failed assertion for differing dtypes (the class assumes
\* the dtype uniform; no property below is about arrays of mixed dtypes).
entry_dtype(ary) ==
    IF Len(ary.data) = 0
    THEN [err |-> "ValueError", val |-> None]
    ELSE IF \E i \in 1 .. Len(ary.data) : ary.data[i].dtype # ary.data[1].dtype
         THEN [err |-> "AssertionError", val |-> None]
         ELSE [err |-> "ok", val |-> ary.data[1].dtype]

\* actx.empty(n, dtype): uninitialised memory of n entries.  `w` counts the
\* writes to each position and `oob` notes a write outside the buffer.
empty(actx, n, dtype) ==
    [err |-> "ok", on |-> actx, dtype |-> dtype, size |-> n,
     ent |-> [k \in 0 .. n - 1 |-> Uninit],
     w |-> [k \in 0 .. n - 1 |-> 0], oob |-> FALSE]

FlatError(err) ==
    [err |-> err, on |-> None, dtype |-> None, size |-> 0,
     ent |-> [k \in {} |-> Uninit], w |-> [k \in {} |-> 0], oob |-> FALSE]

\* grp_start + iel*ndofs_per_element + idof, the index both kernels use.
\* (The _colmajor variants: the dof index varying slowest within a group.)
FlattenIndex_colmajor(grp_start, iel, idof, nel, ndof) == grp_start + idof * nel + iel
FlattenIndex(grp_start, iel, idof, nel, ndof) == grp_start + iel * ndof + idof

UnflattenIndex_colmajor(grp_start, iel, idof, nel, ndof) == grp_start + idof * nel + iel
UnflattenIndex(grp_start, iel, idof, nel, ndof) == grp_start + iel * ndof + idof

\* The loopy kernel "flatten" run on one group:
\* result[grp_start + iel*ndofs_per_element + idof] = grp_ary[iel, idof]
\* for 0 <= iel < nelements and 0 <= idof < ndofs_per_element.
call_loopy_flatten(result, grp_ary, grp_start) ==
    LET nel == grp_ary.shape[1]
        ndof == grp_ary.shape[2]
        dom == (0 .. nel - 1) \X (0 .. ndof - 1)
        at(p) == FlattenIndex(grp_start, p[1], p[2], nel, ndof)
        hits(k) == {p \in dom : at(p) = k}
    IN [result EXCEPT
            !.ent = [k \in DOMAIN @ |->
                        IF hits(k) = {} THEN @[k]
                        ELSE grp_ary.ent[CHOOSE p \in hits(k) : TRUE]],
            !.w = [k \in DOMAIN @ |-> @[k] + Cardinality(hits(k))],
            !.oob = @ \/ \E p \in dom : at(p) \notin 0 .. result.size - 1]

\* for grp_start, grp_ary in zip(group_starts, subary): call_loopy(...)
RECURSIVE FlattenLoop(_, _, _, _)
FlattenLoop(result, data, group_starts, g) ==
    IF g > Len(data) \/ g > Len(group_starts)
    THEN result
    ELSE FlattenLoop(call_loopy_flatten(result, data[g], group_starts[g]),
                     data, group_starts, g + 1)

\* flatten applied to a DOFArray (map_dof_array_container hands a DOFArray
\* to _flatten_dof_array as it is).
flatten(subary) ==
    LET actx == array_context(subary) IN
    IF actx = None
    THEN FlatError("ValueError")
    ELSE LET group_sizes == [g \in 1 .. Len(subary.data) |->
                                subary.data[g].shape[1] * subary.data[g].shape[2]]
             group_starts == cumsum(<<0>> \o group_sizes)
             dt == entry_dtype(subary)
         IN IF dt.err # "ok"
            THEN FlatError(dt.err)
            ELSE FlattenLoop(empty(actx, group_starts[Len(group_starts)], dt.val),
                             subary.data, group_starts, 1)

\* "if ary.size != sum(group_sizes)"
\* (SizeMismatch_tooSmall: only a flat array that is too short rejected.)
SizeMismatch_tooSmall(size, expected) == size < expected
SizeMismatch(size, expected) == size # expected

\* The loopy kernel "unflatten" run for one group:
\* result[iel, idof] = ary[grp_start + iel*ndofs_per_element + idof]
call_loopy_unflatten(actx, ary, grp_start, nel, ndof) ==
    [on |-> actx, dtype |-> ary.dtype, shape |-> <<nel, ndof>>,
     ent |-> [p \in (0 .. nel - 1) \X (0 .. ndof - 1) |->
                LET k == UnflattenIndex(grp_start, p[1], p[2], nel, ndof)
                IN IF k \in DOMAIN ary.ent THEN ary.ent[k] ELSE Uninit]]

\* _unflatten(actx, group_shapes, ary)
unflatten_(actx, group_shapes, ary) ==
    LET group_sizes == [g \in 1 .. Len(group_shapes) |->
                            group_shapes[g][1] * group_shapes[g][2]]
    IN IF SizeMismatch(ary.size, sum(group_sizes))
       THEN [err |-> "ValueError",
             msg |-> <<"array has size ", ToString(ary.size),
                       ", expected ", ToString(sum(group_sizes))>>,
             ncalls |-> 0, out |-> NoArray]
       ELSE LET group_starts == cumsum(<<0>> \o group_sizes)
            IN [err |-> "ok", msg |-> <<>>,
                ncalls |-> Len(group_shapes),
                out |-> DOFArray(actx,
                    [g \in 1 .. Len(group_shapes) |->
                        call_loopy_unflatten(actx, ary, group_starts[g],
                            group_shapes[g][1], group_shapes[g][2])])]

NoFlat == FlatError("none")
NoUnflat ==
    [err |-> "none", msg |-> <<>>, ncalls |-> 0, out |-> NoArray,
     actx |-> None, group_shapes |-> <<>>]

\* flatten(cin)
Flatten ==
    /\ cflat = NoFlat
    /\ cflat' = flatten(cin)
    /\ UNCHANGED <<cin, cun, pickleVars, ibopVars, containerVars>>

\* _unflatten(actx, group_shapes, <the flat array>)
Unflatten(actx, group_shapes) ==
    /\ cflat.err = "ok"
    /\ cun = NoUnflat
    /\ LET r == unflatten_(actx, group_shapes, cflat)
       IN cun' = [err |-> r.err, msg |-> r.msg, ncalls |-> r.ncalls, out |-> r.out,
                  actx |-> actx, group_shapes |-> group_shapes]
    /\ UNCHANGED <<cin, cflat, pickleVars, ibopVars, containerVars>>

(***************************************************************************)
(* The array container interface of DOFArray: the functions registered     *)
(* with serialize_container and deserialize_container_class.  An iterable  *)
(* is a sequence of pairs <<i, subary>>, i counting from 0 as enumerate    *)
(* does.  A slot of the list `result` is <<>> while it holds None and      *)
(* <<subary>> once a group array was stored in it.                         *)
(***************************************************************************)
\* "return enumerate(ary._data)"
serialize(ary) == [j \in 1 .. Len(ary.data) |-> <<j - 1, ary.data[j]>>]

\* The place result[i] names in a list of k items, counted from 1: Python
\* counts a negative index from the end; 0 stands for IndexError.
ListSlot(i, k) ==
    IF 0 <= i /\ i < k
    THEN i + 1
    ELSE IF 0 - k <= i /\ i < 0 THEN k + i + 1 ELSE 0

\* The slot written for the pair <<i, subary>> that is item j of the
\* iterable: "result[i] = subary".
\* (DeserializeSlot_emission: the item stored at the place it was emitted.)
DeserializeSlot_emission(i, j, k) == j
DeserializeSlot(i, j, k) == ListSlot(i, k)

\* "for i, subary in iterable: result[i] = subary", from item j on.
RECURSIVE DeserializeLoop(_, _, _)
DeserializeLoop(result_, iterable_, j) ==
    IF j > Len(iterable_)
    THEN [err |-> "ok", result |-> result_]
    ELSE LET slot == DeserializeSlot(iterable_[j][1], j, Len(result_))
         IN IF slot = 0
            THEN [err |-> "IndexError", result |-> result_]
            ELSE DeserializeLoop([result_ EXCEPT ![slot] = <<iterable_[j][2]>>],
                                 iterable_, j + 1)

\* The function registered with deserialize_container_class for DOFArray.
deserialize(actx, iterable_) ==
    LET k == Len(iterable_)
        r == DeserializeLoop([s \in 1 .. k |-> <<>>], iterable_, 1)
    IN IF r.err # "ok"
       THEN [err |-> r.err, msg |-> <<"list assignment index out of range">>,
             out |-> NoArray]
       ELSE IF \E s \in 1 .. k : r.result[s] = <<>>
            THEN [err |-> "ValueError",
                  msg |-> <<"'iterable' does not contain all indices">>,
                  out |-> NoArray]
            ELSE [err |-> "ok", msg |-> <<>>,
                  out |-> DOFArray(actx, [s \in 1 .. k |-> r.result[s][1]])]

\* The DOFArrays that are serialized: those that are pickled.
ContainerArrays == PickleArrays

\* The indices tried: those of a full array, one past them, and -1.
ContainerIndices == (0 - 1) .. MaxGroups

\* The iterables handed to deserialize: up to MaxGroups pairs, each an index
\* with a group array of one of the arrays above.
Iterables ==
    UNION {SeqsUpTo(ContainerIndices \X {PickleArray(a, MaxGroups).data[g] :
                                              g \in 1 .. MaxGroups},
                    MaxGroups) : a \in Backends \cup {None}}

NoResult == [err |-> "none", msg |-> <<>>, out |-> NoArray, actx |-> None]

\* deserialize_container_class(DOFArray, actx, iterable)
Deserialize(actx) ==
    /\ recomposed = NoResult
    /\ LET r == deserialize(actx, iterable)
       IN recomposed' = [err |-> r.err, msg |-> r.msg, out |-> r.out, actx |-> actx]
    /\ UNCHANGED <<iterable, pickleVars, codecVars, ibopVars>>

(***************************************************************************)
(* unflatten(actx, discr, ary, ndofs_per_element_per_group): the public    *)
(* function, which takes the group shapes from the element groups of a     *)
(* discretization.  An element group is a record of its nelements and its  *)
(* nunit_dofs; the optional argument is a record of whether it was given   *)
(* and of the sequence given.                                              *)
(***************************************************************************)
\* The element groups tried, and discr.groups: up to MaxGroups of them.
DiscrGroups ==
    {[nelements |-> 1, nunit_dofs |-> 2], [nelements |-> 2, nunit_dofs |-> 2]}
Discrs == SeqsUpTo(DiscrGroups, MaxGroups)

\* ndofs_per_element_per_group: None, or a sequence of numbers that may be
\* shorter or longer than discr.groups.
NdofsValues == {1, 3}
NoOverride == [given |-> FALSE, seq |-> <<>>]
Overrides ==
    {NoOverride}
        \cup {[given |-> TRUE, seq |-> s] : s \in SeqsUpTo(NdofsValues, MaxGroups + 1)}

\* zip(a, b): pairs up to the end of the shorter sequence.
zip(a, b) ==
    [i \in 1 .. (IF Len(a) < Len(b) THEN Len(a) ELSE Len(b)) |-> <<a[i], b[i]>>]

\* unflatten for a single flat array (a container is mapped leaf by leaf).
unflatten(actx, discr, ary, ndofs_per_element_per_group) ==
    LET ndofs == IF ~ ndofs_per_element_per_group.given
                 THEN [g \in 1 .. Len(discr) |-> discr[g].nunit_dofs]
                 ELSE ndofs_per_element_per_group.seq
        pairs == zip(discr, ndofs)
        nel_ndof_per_element_per_group ==
            [i \in 1 .. Len(pairs) |-> <<pairs[i][1].nelements, pairs[i][2]>>]
        r == unflatten_(actx, nel_ndof_per_element_per_group, ary)
    IN [err |-> r.err, msg |-> r.msg, ncalls |-> r.ncalls, out |-> r.out,
        actx |-> actx, group_shapes |-> nel_ndof_per_element_per_group,
        discr |-> discr, override |-> ndofs_per_element_per_group]

\* A flat array of n entries on array context a; entry k holds k.
FlatArray(a, n) == [empty(a, n, "float64") EXCEPT !.ent = [k \in 0 .. n - 1 |-> k]]

\* The flat arrays tried: every size up to that of MaxGroups largest groups.
FlatArrays == {FlatArray("A", n) : n \in 0 .. MaxGroups * 6}

\* unflatten(actx, discr, <the flat array>, ndofs_per_element_per_group)
UnflattenCall(actx, discr, ndofs_per_element_per_group) ==
    /\ cun = NoUnflat
    /\ cun' = unflatten(actx, discr, cflat, ndofs_per_element_per_group)
    /\ UNCHANGED <<cin, cflat, pickleVars, ibopVars, containerVars>>

(***************************************************************************)
(* In-place arithmetic: DOFArray._ibop.                                    *)
(* DOFArrays and their group arrays are objects: objs maps the identity of *)
(* a DOFArray to its array context and to the identities of its group      *)
(* arrays, heap maps the identity of a group array to its content.  A      *)
(* content is a term in prefix form, a sequence of tokens: the in-place    *)
(* operator of the array type itself belongs to the backend and is kept    *)
(* symbolic.                                                               *)
(***************************************************************************)
\* operator.iadd ... operator.ior, as handed to _ibop by __iadd__ ... __ior__
Ops == {"iadd", "isub", "imul", "itruediv", "imod", "iand", "ixor", "ior"}

ObjIds == {"x", "y"}

\* The operands tried: a DOFArray, a Number, objects of two other types;
\* kind is type(arg).__name__.
Operands ==
    {[kind |-> "DOFArray", ref |-> o] : o \in ObjIds}
        \cup {[kind |-> "Number", ref |-> "2"], [kind |-> "str", ref |-> "'a'"],
              [kind |-> "ndarray", ref |-> "v"]}

\* The identity of group array i of DOFArray o.
BufId(o, i) == <<o, ToString(i)>>

\* f(a, b) on a group array: its content becomes f applied to (a, b).
apply(f, a, b) == <<f>> \o a \o b

\* arg[i] of "f(subary, arg[i])"
\* (IbopOther_first: every group paired with the operand's first group.)
IbopOther_first(arg_data, i) == arg_data[1]
IbopOther(arg_data, i) == arg_data[i]

\* "for i, subary in enumerate(self): f(subary, arg[i])", from group i on;
\* every call reads the contents as the calls before it left them.
RECURSIVE IbopLoopArray(_, _, _, _, _)
IbopLoopArray(h, f, self_data, arg_data, i) ==
    IF i > Len(self_data)
    THEN h
    ELSE IbopLoopArray(
            [h EXCEPT ![self_data[i]] = apply(f, @, h[IbopOther(arg_data, i)])],
            f, self_data, arg_data, i + 1)

\* "for subary in self: f(subary, arg)"
RECURSIVE IbopLoopNumber(_, _, _, _, _)
IbopLoopNumber(h, f, self_data, number, i) ==
    IF i > Len(self_data)
    THEN h
    ELSE IbopLoopNumber([h EXCEPT ![self_data[i]] = apply(f, @, <<number>>)],
                        f, self_data, number, i + 1)

\* The message of the ValueError: the string is not an f-string, so the
\* braces stay as written and no length is put in.
LengthMessage(len_self, len_arg) ==
    <<"'DOFArray' objects in binary operator must have the same length: ",
      "{len(self)}", " != ", "{len(arg)}">>

\* f"operation for type {type(arg).__name__}"
\* (TypeMessage_plain: the same string without the f prefix.)
TypeMessage_plain(type_name) == <<"operation for type ", "{type(arg).__name__}">>
TypeMessage(type_name) == <<"operation for type ", type_name>>

\* "if len(self) != len(arg)"
LengthsDiffer(len_self, len_arg) == len_self # len_arg

\* The heap when the ValueError is raised: the length test and its raise
\* come before the loop, so no group array has been touched.
\* (IbopRaiseHeap_late: the test made after the groups that have a partner
\* were updated.)
IbopRaiseHeap_late(h, f, self_data, arg_data) ==
    IbopLoopArray(h, f,
        SubSeq(self_data, 1,
               IF Len(self_data) < Len(arg_data) THEN Len(self_data)
                                                 ELSE Len(arg_data)),
        arg_data, 1)
IbopRaiseHeap(h, f, self_data, arg_data) == h

\* DOFArray._ibop(self, f, arg): the error raised, the heap it leaves and
\* the object it returns.
ibop(h, os, self, f, arg) ==
    IF arg.kind = "DOFArray"
    THEN IF LengthsDiffer(Len(os[self].data), Len(os[arg.ref].data))
         THEN [err |-> "ValueError",
               msg |-> LengthMessage(Len(os[self].data), Len(os[arg.ref].data)),
               heap |-> IbopRaiseHeap(h, f, os[self].data, os[arg.ref].data),
               ret |-> None]
         ELSE [err |-> "ok", msg |-> <<>>,
               heap |-> IbopLoopArray(h, f, os[self].data, os[arg.ref].data, 1),
               ret |-> self]
    ELSE IF arg.kind = "Number"
         THEN [err |-> "ok", msg |-> <<>>,
               heap |-> IbopLoopNumber(h, f, os[self].data, arg.ref, 1),
               ret |-> self]
         ELSE [err |-> "NotImplementedError", msg |-> TypeMessage(arg.kind),
               heap |-> h, ret |-> None]

\* x <op>= arg, for the operator method that calls _ibop with f.  `before`
\* keeps the heap as it was when the call was made.
Ibop(self, f, arg) ==
    /\ nops < MaxOps
    /\ LET r == ibop(heap, objs, self, f, arg)
       IN /\ heap' = r.heap
          /\ last' = [op |-> f, self |-> self, arg |-> arg, err |-> r.err,
                      msg |-> r.msg, ret |-> r.ret, before |-> heap]
    /\ nops' = nops + 1
    /\ UNCHANGED <<objs, pickleVars, codecVars, containerVars>>

NoLast ==
    [op |-> "none", self |-> "x", arg |-> [kind |-> "Number", ref |-> "2"],
     err |-> "ok", msg |-> <<>>, ret |-> None, before |-> <<>>]

\* Two DOFArrays x and y on one array context, each with its own group
\* arrays; x is the left operand of every operator.
InitIbop ==
    /\ \E nx, ny \in 0 .. MaxLen :
        /\ objs = [o \in ObjIds |->
                    DOFArray("A", [i \in 1 .. (IF o = "x" THEN nx ELSE ny) |->
                                        BufId(o, i)])]
        /\ heap = [b \in {BufId("x", i) : i \in 1 .. nx}
                            \cup {BufId("y", i) : i \in 1 .. ny} |-> <<b[1] \o b[2]>>]
    /\ last = NoLast
    /\ nops = 0
    /\ PickleIdle
    /\ cin = NoArray
    /\ cflat = NoFlat
    /\ cun = NoUnflat
    /\ iterable = <<>>
    /\ recomposed = NoResult

NextIbop == \E f \in Ops, arg \in Operands : Ibop("x", f, arg)

SpecIbop == InitIbop /\ [][NextIbop]_vars

(***************************************************************************)
(* The sequence protocol and the ndarray interface of DOFArray, applied to *)
(* the objects of the heap above.  What a call returns is recorded as a    *)
(* sequence: <<>> when it returns nothing, <<v>> when it returns v.  The   *)
(* methods of a group array itself (copy, fill, conj, real, imag) belong   *)
(* to the array type and are kept symbolic, like its in-place operators.   *)
(***************************************************************************)
\* DOFArray.__len__
len(self_data) == Len(self_data)

\* DOFArray.__getitem__: self._data[i], the indexing of a tuple.
getitem(self_data, i) ==
    IF ListSlot(i, Len(self_data)) = 0
    THEN [err |-> "IndexError", val |-> <<>>]
    ELSE [err |-> "ok", val |-> <<self_data[ListSlot(i, Len(self_data))]>>]

\* DOFArray.__iter__: the group arrays in the order of the tuple.
iter(self_data) == self_data

\* DOFArray._like_me
_like_me(self, data) == DOFArray(array_context(self), data)

\* DOFArray.shape and DOFArray.size
DOFArray_shape(self) == <<len(self.data)>>
DOFArray_size(self) == len(self.data)

\* DOFArray.copy, conj, real and imag: a new DOFArray of new group arrays,
\* named here by their contents; method is the group array's own method.
MapGroups(h, self, method) ==
    _like_me(self, [i \in 1 .. len(self.data) |-> <<method>> \o h[self.data[i]]])
copy(h, self) == _like_me(self, [i \in 1 .. len(self.data) |-> h[self.data[i]]])
conj(h, self) == MapGroups(h, self, "conj")
real(h, self) == MapGroups(h, self, "real")
imag(h, self) == MapGroups(h, self, "imag")

\* DOFArray.fill: "for subary in self: subary.fill(value)", from group i on.
RECURSIVE fill(_, _, _, _)
fill(h, self_data, value, i) ==
    IF i > Len(self_data)
    THEN h
    ELSE fill([h EXCEPT ![self_data[i]] = <<"fill", value>>], self_data, value, i + 1)

\* The object o as flatten and __getstate__ read it: every group array has
\* shape (1, 2), and its entry [iel, idof] is the content indexed.
ObjectValue(os, h, o) ==
    DOFArray(os[o].array_context,
        [i \in 1 .. Len(os[o].data) |->
            [on |-> os[o].array_context, dtype |-> "float64", shape |-> <<1, 2>>,
             ent |-> [p \in (0 .. 0) \X (0 .. 1) |->
                        h[os[o].data[i]] \o <<ToString(p[1]), ToString(p[2])>>]]])

\* The array context of self after __getstate__: the thawed array is bound
\* to the local name ary, self is not assigned.
\* (GetStateSelfContext_thawed: self attached to the context in place.)
GetStateSelfContext_thawed(self_actx, actx) == actx
GetStateSelfContext(self_actx, actx) == self_actx

\* The record of a call that is not an in-place operator.
SurfaceLast(op, self, arg, err, val) ==
    [op |-> op, self |-> self, arg |-> [kind |-> "int", ref |-> arg],
     err |-> err, msg |-> <<>>, ret |-> None, before |-> heap, result |-> val]

\* A call that reads self and changes nothing.
Reads(op, self, arg, err, val) ==
    /\ nops < MaxOps
    /\ last' = SurfaceLast(op, self, arg, err, val)
    /\ nops' = nops + 1
    /\ UNCHANGED <<objs, heap, pickleVars, codecVars, containerVars>>

LenCall(self) == Reads("len", self, "", "ok", <<len(objs[self].data)>>)

GetItem(self, i) ==
    LET r == getitem(objs[self].data, i)
    IN Reads("getitem", self, ToString(i), r.err, r.val)

Iter(self) == Reads("iter", self, "", "ok", <<iter(objs[self].data)>>)

Shape(self) == Reads("shape", self, "", "ok", <<DOFArray_shape(objs[self])>>)

Size(self) == Reads("size", self, "", "ok", <<DOFArray_size(objs[self])>>)

Copy(self) == Reads("copy", self, "", "ok", <<copy(heap, objs[self])>>)

Conj(self) == Reads("conj", self, "", "ok", <<conj(heap, objs[self])>>)

Real(self) == Reads("real", self, "", "ok", <<real(heap, objs[self])>>)

Imag(self) == Reads("imag", self, "", "ok", <<imag(heap, objs[self])>>)

Fill(self, value) ==
    /\ nops < MaxOps
    /\ heap' = fill(heap, objs[self].data, value, 1)
    /\ last' = SurfaceLast("fill", self, value, "ok", <<>>)
    /\ nops' = nops + 1
    /\ UNCHANGED <<objs, pickleVars, codecVars, containerVars>>

\* flatten(self)
FlattenSelf(self) ==
    LET r == flatten(ObjectValue(objs, heap, self))
    IN Reads("flatten", self, "", r.err, IF r.err = "ok" THEN <<r>> ELSE <<>>)

\* pickling self on thread t
PersistSelf(t, self) ==
    LET actx == TlsGet(t)
        r == getstate(ObjectValue(objs, heap, self), actx)
    IN /\ nops < MaxOps
       /\ objs' = IF r.err = "ok"
                  THEN [objs EXCEPT ![self].array_context =
                                        GetStateSelfContext(@, actx)]
                  ELSE objs
       /\ last' = SurfaceLast("persist", self, "", r.err,
                              IF r.err = "ok" THEN <<r.val>> ELSE <<>>)
       /\ nops' = nops + 1
       /\ UNCHANGED <<heap, pickleVars, codecVars, containerVars>>

\* The operands of the in-place operators here: y, a Number, a str.
SurfaceOperands ==
    {[kind |-> "DOFArray", ref |-> "y"], [kind |-> "Number", ref |-> "2"],
     [kind |-> "str", ref |-> "'a'"]}

\* x with up to MaxGroups groups, attached or frozen; y attached with one
\* group; thread t1 outside any with-block or inside one.
InitSurface ==
    /\ \E nx \in 0 .. MaxGroups, a \in {"A", None} :
        /\ objs = [o \in ObjIds |->
                    IF o = "x"
                    THEN DOFArray(a, [i \in 1 .. nx |-> BufId(o, i)])
                    ELSE DOFArray("A", <<BufId(o, 1)>>)]
        /\ heap = [b \in {BufId("x", i) : i \in 1 .. nx} \cup {BufId("y", 1)} |->
                        <<b[1] \o b[2]>>]
    /\ last = NoLast
    /\ nops = 0
    /\ \E c \in Backends \cup {Unset} :
        /\ TLS_actx = [t \in Threads |-> IF t = "t1" THEN c ELSE Unset]
        /\ with_actx = [t \in Threads |->
                            IF t = "t1" /\ c \in Backends THEN c ELSE None]
    /\ ret = [t \in Threads |-> NoRet]
    /\ cin = NoArray
    /\ cflat = NoFlat
    /\ cun = NoUnflat
    /\ iterable = <<>>
    /\ recomposed = NoResult

NextSurface ==
    \/ Shape("x")
    \/ Size("x")
    \/ Copy("x")
    \/ \E value \in {"0"} : Fill("x", value)
    \/ Conj("x")
    \/ Real("x")
    \/ Imag("x")
    \/ LenCall("x")
    \/ \E i \in 0 .. MaxGroups : GetItem("x", i)
    \/ Iter("x")
    \/ FlattenSelf("x")
    \/ PersistSelf("t1", "x")
    \/ \E f \in Ops, arg \in SurfaceOperands : Ibop("x", f, arg)

SpecSurface == InitSurface /\ [][NextSurface]_vars

(***************************************************************************)
(* The specifications.                                                     *)
(***************************************************************************)
CodecIdle ==
    /\ cin = NoArray
    /\ cflat = NoFlat
    /\ cun = NoUnflat

IbopIdle ==
    /\ objs = <<>>
    /\ heap = <<>>
    /\ last = NoLast
    /\ nops = 0

ContainerIdle ==
    /\ iterable = <<>>
    /\ recomposed = NoResult

Init == PickleIdle /\ CodecIdle /\ IbopIdle /\ ContainerIdle

Next == \E t \in Threads : ThreadStep(t)

Spec == Init /\ [][Next]_vars

\* The same, with every with-body coming to its end: a thread inside a
\* with-block eventually leaves it.
SpecLive == Spec /\ \A t \in Threads : WF_vars(Exit(t))

InitCodec ==
    /\ cin \in CodecArrays
    /\ cflat = NoFlat
    /\ cun = NoUnflat
    /\ PickleIdle
    /\ IbopIdle
    /\ ContainerIdle

NextCodec ==
    \/ Flatten
    \/ \E actx \in Backends, group_shapes \in ShapeLists : Unflatten(actx, group_shapes)

SpecCodec == InitCodec /\ [][NextCodec]_vars

InitUnflatten ==
    /\ cin = NoArray
    /\ cflat \in FlatArrays
    /\ cun = NoUnflat
    /\ PickleIdle
    /\ IbopIdle
    /\ ContainerIdle

NextUnflatten ==
    \E actx \in Backends, discr \in Discrs, override \in Overrides :
        UnflattenCall(actx, discr, override)

SpecUnflatten == InitUnflatten /\ [][NextUnflatten]_vars

InitContainer ==
    /\ iterable \in Iterables
    /\ recomposed = NoResult
    /\ PickleIdle
    /\ CodecIdle
    /\ IbopIdle

NextContainer == \E actx \in Backends : Deserialize(actx)

SpecContainer == InitContainer /\ [][NextContainer]_vars

(***************************************************************************)
(* Properties of the pickling context (checked under Spec).                *)
(* A thread is Active with backend b while it is inside a with-block       *)
(* entered with b (with_actx[t] = b) and Idle otherwise.  ret[t] records   *)
(* the thread's last call: `where` is with_actx[t] and `slot` the          *)
(* thread-local attribute when the call was made.                          *)
(***************************************************************************)

\* C1: entering array_context_for_pickling on a thread that is Active fails
\* with RuntimeError, whatever backends the first and the second enter were
\* given, and leaves the context as it was; entering on an Idle thread
\* succeeds and makes the given backend the active one.
C1_EnterExclusive ==
    \A t \in Threads :
        ret[t].op = "enter" =>
            /\ ret[t].where \in Backends =>
                    /\ ret[t].err = "RuntimeError"
                    /\ TLS_actx[t] = ret[t].where
            /\ ret[t].where = None =>
                    /\ ret[t].err = "ok"
                    /\ TLS_actx[t] = ret[t].arg

C1_Witness ==
    \E t \in Threads :
        /\ ret[t].op = "enter"
        /\ ret[t].where = "A"
        /\ ret[t].arg = "B"
        /\ ret[t].err = "RuntimeError"

\* C2: __getstate__ and __setstate__ raise RuntimeError whenever the calling
\* thread is Idle, before any enter on the thread as well as after an exit,
\* and then return no value and assign no attribute.
C2_IdleRejected ==
    \A t \in Threads :
        (ret[t].op \in {"persist", "restore"} /\ ret[t].where = None) =>
            /\ ret[t].err = "RuntimeError"
            /\ ret[t].val = <<>>
            /\ DOMAIN ret[t].obj = {}

C2_Witness ==
    /\ ret["t1"].op = "persist"
    /\ ret["t1"].where = None
    /\ ret["t1"].slot = None
    /\ Len(ret["t1"].self.data) > 0
    /\ ret["t1"].err = "RuntimeError"
    /\ ret["t2"].op = "restore"
    /\ ret["t2"].where = None
    /\ ret["t2"].slot = Unset
    /\ Len(ret["t2"].state) > 0
    /\ ret["t2"].err = "RuntimeError"

\* C3: the context is per thread.  A step of one thread never changes the
\* with-block or the thread-local attribute of another thread; the attribute
\* of a thread names the backend of the with-block the thread is inside (one
\* backend at most); and __getstate__ / __setstate__ on a thread read that
\* thread's own active backend, every persisted value being transferred by it.
C3_OwnContext ==
    \A t \in Threads :
        /\ with_actx[t] \in Backends => TLS_actx[t] = with_actx[t]
        /\ with_actx[t] = None => TLS_actx[t] \in {None, Unset}
        /\ (ret[t].op \in {"persist", "restore"} /\ ret[t].where \in Backends) =>
                /\ ret[t].actx = ret[t].where
                /\ \A i \in 1 .. Len(ret[t].val) : ret[t].val[i].via = ret[t].where

C3_Frame ==
    \A t \in Threads :
        ThreadStep(t) =>
            \A u \in Threads \ {t} :
                /\ TLS_actx'[u] = TLS_actx[u]
                /\ with_actx'[u] = with_actx[u]
                /\ ret'[u] = ret[u]

C3_PerThread == [](C3_OwnContext) /\ [][C3_Frame]_vars

C3_Witness ==
    /\ with_actx["t1"] = "A"
    /\ with_actx["t2"] = "B"
    /\ ret["t1"].op = "persist"
    /\ ret["t1"].slot = "A"
    /\ ret["t1"].err = "ok"
    /\ Len(ret["t1"].val) > 0
    /\ ret["t2"].op = "persist"
    /\ ret["t2"].slot = "B"
    /\ ret["t2"].err = "ok"
    /\ Len(ret["t2"].val) > 0

\* C17: a with-block that was entered is left with the thread Idle however
\* its body ends, by running to its end or by an exception (a failed
\* __getstate__ or __setstate__ included); every body that ends brings the
\* thread back to Idle, and an enter made after that succeeds with any
\* backend.
C17_AfterExit ==
    \A t \in Threads :
        /\ ret[t].op = "exit" =>
                /\ with_actx[t] = None
                /\ TLS_actx[t] = None
        /\ (ret[t].op = "enter" /\ ret[t].where = None) =>
                /\ ret[t].err = "ok"
                /\ with_actx[t] = ret[t].arg
                /\ TLS_actx[t] = ret[t].arg

C17_ExitStep ==
    \A t \in Threads :
        (with_actx[t] \in Backends /\ with_actx'[t] = None) =>
            /\ TLS_actx'[t] = None
            /\ \A b \in Backends : ~ EnterRejected(TlsGet(t)')

C17_ExitRestoresIdle ==
    /\ [](C17_AfterExit)
    /\ [][C17_ExitStep]_vars
    /\ \A t \in Threads :
            (with_actx[t] \in Backends) ~> (with_actx[t] = None /\ TLS_actx[t] = None)

C17_Witness ==
    /\ ret["t1"].op = "enter"
    /\ ret["t1"].slot = None
    /\ ret["t1"].arg = "B"
    /\ ret["t1"].err = "ok"
    /\ ret["t2"].op = "exit"
    /\ ret["t2"].arg = "raise"
    /\ TLS_actx["t2"] = None

\* C18: an enter rejected because the thread is already inside a with-block
\* changes nothing: the thread stays Active with the backend of that block,
\* __getstate__ and __setstate__ called afterwards in the block use that
\* backend, and the thread-local attribute changes only when the block is
\* left.
C18_AfterRejected ==
    \A t \in Threads :
        (ret[t].op = "enter" /\ ret[t].err = "RuntimeError") =>
            /\ ret[t].where \in Backends
            /\ with_actx[t] = ret[t].where
            /\ TLS_actx[t] = ret[t].where

\* A step that is a rejected enter changes no context; the call that follows
\* a rejected enter on the thread, if it is __getstate__ or __setstate__,
\* reads the backend of the block; the attribute of a thread inside a block
\* changes only by the exit of the block.
C18_RejectedStep ==
    \A t \in Threads :
        /\ \A b \in Backends :
                (with_actx[t] \in Backends /\ Enter(t, b)) =>
                    /\ TLS_actx' = TLS_actx
                    /\ with_actx' = with_actx
        /\ (/\ ret[t].op = "enter"
            /\ ret[t].err = "RuntimeError"
            /\ ret'[t].op \in {"persist", "restore"}) =>
                /\ ret'[t].where = ret[t].where
                /\ ret'[t].actx = ret[t].where
                /\ \A i \in 1 .. Len(ret'[t].val) : ret'[t].val[i].via = ret[t].where
        /\ (TLS_actx[t] \in Backends /\ TLS_actx'[t] # TLS_actx[t]) =>
                /\ ret'[t].op = "exit"
                /\ with_actx'[t] = None

C18_RejectedEnterFrame == [](C18_AfterRejected) /\ [][C18_RejectedStep]_vars

C18_Witness ==
    \E t \in Threads :
        /\ ret[t].op = "enter"
        /\ ret[t].err = "RuntimeError"
        /\ ret[t].slot = "A"
        /\ ret[t].arg = "B"
        /\ with_actx[t] = "A"
        /\ TLS_actx[t] = "A"

\* C4: while the thread is Active with backend A, __setstate__ applied to a
\* sequence of host values completes without error and leaves a DOFArray
\* whose array_context is A, with one group per value, group i being value i
\* moved into A.
C4_RestoreAttaches ==
    \A t \in Threads :
        (ret[t].op = "restore" /\ ret[t].where \in Backends) =>
            /\ ret[t].err = "ok"
            /\ DOMAIN ret[t].obj = {"_array_context", "_data"}
            /\ ret[t].obj["_array_context"] = ret[t].where
            /\ Len(ret[t].obj["_data"]) = Len(ret[t].state)
            /\ \A i \in 1 .. Len(ret[t].state) :
                    ret[t].obj["_data"][i] = from_numpy(ret[t].where, ret[t].state[i])

\* C5: while the thread is Active with backend A, __getstate__ of an array
\* with n groups returns n host values, value i being group i transferred to
\* host by A with the group's shape and entries; the array transferred is the
\* array itself when its array_context is A, and otherwise the array frozen
\* and thawed into A, whose groups are all attached to A.
C5_PersistValues ==
    \A t \in Threads :
        (ret[t].op = "persist" /\ ret[t].where \in Backends) =>
            LET A == ret[t].where
                x == ret[t].self
                ary == ret[t].ary
                val == ret[t].val
            IN /\ ret[t].err = "ok"
               /\ Len(val) = Len(x.data)
               /\ Len(ary.data) = Len(x.data)
               /\ ary.array_context = A
               /\ (x.array_context = A) => ary = x
               /\ \A i \in 1 .. Len(x.data) :
                    /\ ary.data[i].on = A
                    /\ ary.data[i].ent = x.data[i].ent
                    /\ val[i].via = A
                    /\ val[i].dtype = x.data[i].dtype
                    /\ val[i].shape = x.data[i].shape
                    /\ val[i].ent = x.data[i].ent

C5_Witness ==
    /\ ret["t1"].op = "persist"
    /\ ret["t1"].where = "A"
    /\ ret["t1"].self.array_context = "B"
    /\ Len(ret["t1"].val) = MaxGroups
    /\ ret["t1"].ary # ret["t1"].self
    /\ ret["t2"].op = "persist"
    /\ ret["t2"].where = "A"
    /\ ret["t2"].self.array_context = None
    /\ Len(ret["t2"].val) > 0
    /\ ret["t2"].err = "ok"

(***************************************************************************)
(* Properties of the layout codec (checked under SpecCodec).               *)
(* cin is the DOFArray x, cflat the outcome of flatten(x), cun the outcome *)
(* of _unflatten applied to the flat array.                                *)
(***************************************************************************)
Shapes(x) == [g \in 1 .. Len(x.data) |-> x.data[g].shape]
Count(shape) == shape[1] * shape[2]

\* offset_1 = 0, offset_{g+1} = offset_g + nelements_g * ndofs_g
RECURSIVE Offset(_, _)
Offset(shapes, g) ==
    IF g = 1 THEN 0 ELSE Offset(shapes, g - 1) + Count(shapes[g - 1])
Total(shapes) == Offset(shapes, Len(shapes) + 1)

\* A DOFArray of the data model (all group arrays share one dtype) that is
\* attached to a backend.
UniformDtype(x) ==
    \A i, j \in 1 .. Len(x.data) : x.data[i].dtype = x.data[j].dtype
Attached(x) == x.array_context \in Backends /\ UniformDtype(x)
Flattenable(x) == Attached(x) /\ Len(x.data) >= 1

\* flatten(x) succeeded with the documented layout: one buffer on x's array
\* context, of size sum_g nelements_g * ndofs_g, holding x[g][iel, idof] at
\* offset_g + iel * ndofs_g + idof, every position written exactly once.
LayoutOK(x, flat) ==
    /\ flat.err = "ok"
    /\ flat.on = x.array_context
    /\ flat.size = Total(Shapes(x))
    /\ DOMAIN flat.ent = 0 .. Total(Shapes(x)) - 1
    /\ ~flat.oob
    /\ \A k \in DOMAIN flat.w : flat.w[k] = 1
    /\ \A g \in 1 .. Len(x.data) :
        \A iel \in 0 .. x.data[g].shape[1] - 1, idof \in 0 .. x.data[g].shape[2] - 1 :
            flat.ent[Offset(Shapes(x), g) + iel * x.data[g].shape[2] + idof]
                = x.data[g].ent[<<iel, idof>>]

\* _unflatten was applied with x's own array context and group shapes.
UnflattenedLike(x) ==
    /\ cun.err # "none"
    /\ cun.actx = x.array_context
    /\ cun.group_shapes = Shapes(x)

\* The round trip returned x: same array context, same number of groups,
\* every group equal to x's group entry by entry.
RoundTripOK(x) ==
    /\ cun.err = "ok"
    /\ cun.out.array_context = x.array_context
    /\ Len(cun.out.data) = Len(x.data)
    /\ \A g \in 1 .. Len(x.data) : cun.out.data[g] = x.data[g]

\* C6 (as claimed): for every DOFArray x attached to a backend, flatten(x)
\* yields a flat array and unflatten with x's shapes returns x.  (The groups
\* of a DOFArray share one dtype.)
C6_RoundTripEvery ==
    (Attached(cin) /\ cflat # NoFlat) =>
        /\ cflat.err = "ok"
        /\ UnflattenedLike(cin) => RoundTripOK(cin)

\* C6 (amended): for every DOFArray x attached to a backend that has at
\* least one group, flatten(x) yields a flat array and unflatten with x's
\* backend and shapes returns a DOFArray on that backend with the same
\* number of groups, group by group equal to x.
C6_RoundTrip ==
    (Flattenable(cin) /\ cflat # NoFlat) =>
        /\ cflat.err = "ok"
        /\ UnflattenedLike(cin) => RoundTripOK(cin)

C6_Witness ==
    /\ cin = CodecArray("B", <<<<3, 2>>, <<2, 3>>>>, <<"float64", "float64">>)
    /\ UnflattenedLike(cin)
    /\ cun.out = cin

\* C7 (as claimed): for every backend-attached DOFArray x, flatten(x) is one
\* buffer with the documented size and layout.  (The groups of a DOFArray
\* share one dtype.)
C7_LayoutEvery ==
    (Attached(cin) /\ cflat # NoFlat) => LayoutOK(cin, cflat)

\* C7 (amended): for every backend-attached DOFArray x with at least one
\* group, flatten(x) is one buffer of length
\* sum_g nelements_g * ndofs_g holding x[g][iel, idof] at
\* offset_g + iel * ndofs_g + idof, every position written exactly once;
\* with no group flatten raises ValueError.
C7_Layout ==
    /\ (Flattenable(cin) /\ cflat # NoFlat) => LayoutOK(cin, cflat)
    /\ (Attached(cin) /\ Len(cin.data) = 0 /\ cflat # NoFlat) =>
            cflat.err = "ValueError"

\* groups 3x2 and 2x3: group 1 row by row, then group 2 row by row
C7_Witness ==
    /\ cin = CodecArray("A", <<<<3, 2>>, <<2, 3>>>>, <<"int32", "int32">>)
    /\ cflat.err = "ok"
    /\ cflat.size = 12
    /\ [k \in 1 .. 12 |-> cflat.ent[k - 1]]
         = <<Tag(1, 0, 0), Tag(1, 0, 1), Tag(1, 1, 0), Tag(1, 1, 1),
             Tag(1, 2, 0), Tag(1, 2, 1), Tag(2, 0, 0), Tag(2, 0, 1),
             Tag(2, 0, 2), Tag(2, 1, 0), Tag(2, 1, 1), Tag(2, 1, 2)>>

\* C8: _unflatten raises ValueError exactly when the size of the flat array
\* differs from sum_g nelements_g * ndofs_g of the group shapes given; the
\* message carries the actual and the expected size, no group has been
\* copied when it is raised, and a flat array of the expected size is
\* unflattened into one group per shape.
C8_SizeCheck ==
    cun.err # "none" =>
        LET expected == Total(cun.group_shapes) IN
        /\ cun.err = "ValueError" <=> cflat.size # expected
        /\ cun.err = "ValueError" =>
                /\ cun.msg = <<"array has size ", ToString(cflat.size),
                               ", expected ", ToString(expected)>>
                /\ cun.ncalls = 0
                /\ cun.out = NoArray
        /\ cflat.size = expected =>
                /\ cun.err = "ok"
                /\ Len(cun.out.data) = Len(cun.group_shapes)

C8_Witness ==
    /\ cun.err = "ValueError"
    /\ cflat.size = 12
    /\ Len(cun.group_shapes) = 2
    /\ cun.msg[2] = "12"
    /\ cun.msg[4] = "8"

(***************************************************************************)
(* Properties of the in-place operators (checked under SpecIbop).          *)
(* last records the last call self <op>= arg: the error raised, the object *)
(* returned and the heap as it was before the call.                        *)
(***************************************************************************)
SelfData == objs[last.self].data
ArgData == objs[last.arg.ref].data

\* C9: an in-place operator given a DOFArray of equal length applies the
\* operator in place to (self[i], other[i]) for every group i, and given a
\* number applies it to (self[i], number) for every i; no other group array
\* changes, no array is created and the call returns self.  This holds for
\* each of the eight operators.
C9_InPlace ==
    (last.op # "none" /\ last.arg.kind \in {"DOFArray", "Number"}
            /\ (last.arg.kind = "DOFArray" => Len(ArgData) = Len(SelfData))) =>
        /\ last.err = "ok"
        /\ last.ret = last.self
        /\ DOMAIN heap = DOMAIN last.before
        /\ \A i \in 1 .. Len(SelfData) :
            heap[SelfData[i]] =
                apply(last.op, last.before[SelfData[i]],
                      IF last.arg.kind = "DOFArray"
                      THEN last.before[ArgData[i]]
                      ELSE <<last.arg.ref>>)
        /\ \A b \in DOMAIN heap :
            (\A i \in 1 .. Len(SelfData) : b # SelfData[i]) => heap[b] = last.before[b]

C9_Witness ==
    /\ nops = MaxOps
    /\ last.op = "ixor"
    /\ last.arg = [kind |-> "DOFArray", ref |-> "y"]
    /\ Len(SelfData) = 2
    /\ last.err = "ok"
    /\ heap[BufId("x", 2)] = <<"ixor", "imul", "x2", "2", "y2">>
    /\ heap[BufId("x", 1)] = <<"ixor", "imul", "x1", "2", "y1">>

\* C11: an in-place operator whose operand is neither a DOFArray nor a
\* Number fails with NotImplementedError, and the message names the type of
\* the operand; this holds for each of the eight operators.
C11_TypeNamed ==
    (last.op \in Ops /\ last.arg.kind \notin {"DOFArray", "Number"}) =>
        /\ last.err = "NotImplementedError"
        /\ last.ret = None
        /\ Len(last.msg) = 2
        /\ last.msg[2] = last.arg.kind

C11_Witness ==
    /\ last.op = "ixor"
    /\ last.arg.kind = "ndarray"
    /\ last.err = "NotImplementedError"
    /\ last.msg = <<"operation for type ", "ndarray">>

\* C19: an in-place operator that fails with ValueError (unequal lengths) or
\* NotImplementedError (unsupported operand) has applied the operator to no
\* group array: every group array of both operands holds the content it
\* held when the call was made.
C19_FailureFrame ==
    (last.op \in Ops /\ last.err \in {"ValueError", "NotImplementedError"}) =>
        /\ heap = last.before
        /\ \A o \in ObjIds : \A i \in 1 .. Len(objs[o].data) :
                heap[objs[o].data[i]] = last.before[objs[o].data[i]]

C19_Witness ==
    /\ last.op \in Ops
    /\ last.err = "ValueError"
    /\ Len(SelfData) >= 1
    /\ Len(ArgData) >= 1
    /\ nops = MaxOps
    /\ \E b \in DOMAIN heap : Len(heap[b]) > 1

\* C10: an in-place operator on two DOFArrays of different lengths raises
\* ValueError, and the message of the error contains the length of each
\* operand.
C10_LengthsNamed ==
    (last.op # "none" /\ last.arg.kind = "DOFArray"
            /\ Len(ArgData) # Len(SelfData)) =>
        /\ last.err = "ValueError"
        /\ \E k \in 1 .. Len(last.msg) : last.msg[k] = ToString(Len(SelfData))
        /\ \E k \in 1 .. Len(last.msg) : last.msg[k] = ToString(Len(ArgData))

(***************************************************************************)
(* Properties of the container interface (checked under SpecContainer).    *)
(***************************************************************************)
\* The iterable holds the pairs of serialize(x), in any order.
PermutationOf(x) ==
    /\ Len(iterable) = Len(x.data)
    /\ \E p \in Permutations(1 .. Len(iterable)) :
            \A j \in 1 .. Len(iterable) : iterable[j] = serialize(x)[p[j]]

\* C13: deserialize puts every group array at its index, not at the place
\* where its pair was emitted: for every DOFArray x and every order of the
\* pairs of serialize(x), deserialize with array context B returns a
\* DOFArray attached to B whose groups are those of x in the order of x;
\* with the array context of x it returns a DOFArray equal to x.
C13_PlacedByIndex ==
    recomposed.err # "none" =>
        \A x \in ContainerArrays :
            PermutationOf(x) =>
                /\ recomposed.err = "ok"
                /\ recomposed.out.array_context = recomposed.actx
                /\ recomposed.out.data = x.data
                /\ (x.array_context = recomposed.actx) => recomposed.out = x

C13_Witness ==
    /\ Len(iterable) = 2
    /\ iterable[1][1] = 1
    /\ iterable[2][1] = 0
    /\ iterable[1][2] # iterable[2][2]
    /\ recomposed.err = "ok"
    /\ recomposed.actx = "B"
    /\ recomposed.out.data = <<iterable[2][2], iterable[1][2]>>

\* The indices of the iterable are list positions counted from the start.
NaturalIndices == \A j \in 1 .. Len(iterable) : iterable[j][1] >= 0

\* The indices of the k pairs fill every slot 0 .. k-1.
FillsEverySlot ==
    \A s \in 0 .. Len(iterable) - 1 :
        \E j \in 1 .. Len(iterable) : iterable[j][1] = s

\* C14: deserialize fails with ValueError ("'iterable' does not contain all
\* indices") for every sequence of k pairs whose indices do not fill every
\* slot 0 .. k-1, a gap and a duplicate included; it fails with no other
\* error, and a DOFArray it returns has a group array in every slot.
C14_MissingIndex ==
    (recomposed.err # "none" /\ NaturalIndices) =>
        /\ recomposed.err \in {"ok", "ValueError"}
        /\ ~ FillsEverySlot =>
                /\ recomposed.err = "ValueError"
                /\ recomposed.msg = <<"'iterable' does not contain all indices">>
        /\ recomposed.err = "ok" =>
                /\ FillsEverySlot
                /\ Len(recomposed.out.data) = Len(iterable)

(***************************************************************************)
(* Properties of the public unflatten (checked under SpecUnflatten).       *)
(***************************************************************************)
\* The dofs per element the caller asked for in group i.
NdofsAsked(i) ==
    IF cun.override.given THEN cun.override.seq[i] ELSE cun.discr[i].nunit_dofs

\* C15: an unflatten that succeeds returns a DOFArray attached to actx with
\* exactly one group array per element group of discr, in the order of the
\* groups, group i of shape (nelements_i, ndofs_i), ndofs_i being the i-th
\* number of the override sequence when one is given and nunit_dofs of the
\* group otherwise; for every override sequence, whatever its length.
C15_OnePerGroup ==
    cun.err = "ok" =>
        /\ cun.out.array_context = cun.actx
        /\ Len(cun.out.data) = Len(cun.discr)
        /\ \A i \in 1 .. Len(cun.discr) :
                /\ cun.out.data[i].on = cun.actx
                /\ cun.out.data[i].shape = <<cun.discr[i].nelements, NdofsAsked(i)>>

(***************************************************************************)
(* Properties of the sequence protocol and the ndarray interface (checked  *)
(* under SpecSurface).                                                     *)
(***************************************************************************)
NdarrayMembers == {"shape", "size", "copy", "fill", "conj", "real", "imag"}

\* C12: on a DOFArray whose array_context is None every member of the
\* ndarray interface (shape, size, copy, fill, conj, real, imag) fails with
\* DetachedError and returns no value, while len, indexing with an index of
\* the array and iteration succeed.
C12_DetachedRejected ==
    objs[last.self].array_context = None =>
        /\ last.op \in NdarrayMembers =>
                /\ last.err = "DetachedError"
                /\ last.result = <<>>
        /\ last.op \in {"len", "iter"} => last.err = "ok"
        /\ (last.op = "getitem" /\ Len(last.result) = 1) => last.err = "ok"

\* C16: no call made on a DOFArray changes the number of its groups or its
\* array context: not an in-place operator, whether it succeeds or fails,
\* nor fill, copy, conj, real, imag, indexing, iteration, flatten or
\* pickling.
C16_Step ==
    \A o \in DOMAIN objs :
        /\ o \in DOMAIN objs'
        /\ Len(objs'[o].data) = Len(objs[o].data)
        /\ objs'[o].array_context = objs[o].array_context

C16_StructureFixed == [][C16_Step]_vars

C16_Witness ==
    /\ nops = MaxOps
    /\ last.op = "persist"
    /\ last.err = "ok"
    /\ objs["x"].array_context = None
    /\ Len(objs["x"].data) = MaxGroups
    /\ Len(last.result[1]) = MaxGroups
    /\ \E b \in DOMAIN heap : Len(heap[b]) > 1

====
